---- MODULE Spec2Model ----
\* A model of BlumBot (src/utils/blum.py): one session object, whose coroutines
\* run one at a time on the shared aiohttp session.  Every await of the source
\* is a step of the model; the remote service, the identity provider and the
\* caller that may cancel the enclosing task are the environment.
EXTENDS Integers, Sequences, FiniteSets, TLC

VARIABLES
    op,             \* the coroutine that is running, or "idle"
    pc,             \* its position (the await it is suspended at)
    play_passes,    \* play_game: the remaining pass count
    game_id,        \* play_game: the value start_game returned
    points,         \* claim_game: the reward amount drawn
    resp,           \* the response held in `resp` (not in claim_game: see hr)
    headers,        \* session.headers['Authorization']
    refresh_token,  \* self.refresh_token
    outcome,        \* how the last coroutine ended
    cancelled,      \* the caller cancelled the running coroutine
    hp,             \* history of the current play_game invocation
    hr,             \* history of the current single-retry invocation: the
                    \* requests sent, the responses received
    ha              \* history of the session's authorization

vars == <<op, pc, play_passes, game_id, points, resp, headers, refresh_token,
          outcome, cancelled, hp, hr, ha>>

-----------------------------------------------------------------------------
\* Bounds of the model.

MaxPasses == 2      \* play_game is called with at most this many passes
MaxExc == 2         \* at most this many exceptions during one play_game
MaxPoints == 2      \* config.POINTS is modelled as 1..MaxPoints
MaxNeg == 1         \* play_game is called with a count of at least -MaxNeg,
                    \* and a negative count is followed down to -MaxNeg - 1

\* Python values that are not strings of the service.
PyNone == "<None>"
PyTrue == "<True>"
PyFalse == "<False>"
Absent == "<absent>"    \* a key that a JSON object does not have

HTTP_OK == 200
Statuses == {HTTP_OK, 500}

GameIds == {"g1", "g2"}
Messages == {"cannot start game", "game session not finished"}
Texts == {"OK", "game session not found"}
Points == 1..MaxPoints

\* The bodies the game/play endpoint answers with: a JSON object with a gameId,
\* with a message, with neither, or a body that is not JSON.
StartBodies ==
    {[json |-> TRUE, gameId |-> g, message |-> Absent] : g \in GameIds}
    \cup {[json |-> TRUE, gameId |-> Absent, message |-> m] : m \in Messages}
    \cup {[json |-> TRUE, gameId |-> Absent, message |-> Absent],
          [json |-> FALSE, gameId |-> Absent, message |-> Absent]}

ClaimResponses == [status : Statuses, text : Texts]

-----------------------------------------------------------------------------
\* Pure pieces of the source.

\* bool(v) of a value that is None or a string
Truthy(v) == v # PyNone /\ v # ""

\* start_game, lines 131-134: the gameId, else the message, else None
StartGameResult(body) ==
    IF body.gameId # Absent THEN body.gameId
    ELSE IF body.message # Absent THEN body.message
    ELSE PyNone

\* play_game, line 83
StopOnStart(g) == ~Truthy(g) \/ g = "cannot start game"

ClaimResultText(txt) == txt

\* claim_game, line 150: True if txt == 'OK' else txt
ClaimResult(txt) == IF txt = "OK" THEN PyTrue ELSE txt

\* claim_game, line 141: json_data
JsonData(g, p) == [gameId |-> g, points |-> p]

RetryJsonRedrawn(json_data) ==
    [json_data EXCEPT !.points = (@ % MaxPoints) + 1]

\* claim_game, line 146: the retry posts json=json_data, the same object
RetryJson(json_data) == json_data

ClaimOkTruthy(msg) == Truthy(msg)

\* play_game, line 90: isinstance(msg, bool) and msg
ClaimOk(msg) == msg = PyTrue

\* lines 144, 157, 171, 186, 204, 216: resp.status != 200
NeedsRetry(status) == status # HTTP_OK

DecrementNone(p) == p

\* play_game, line 98
Decrement(p) == p - 1

PlayCatchesNarrow(kind) == kind = "TimeoutError"

\* play_game, line 100: `except Exception` catches Exception and its
\* subclasses; asyncio.CancelledError derives from BaseException.
PlayCatches(kind) == kind = "Exception"

-----------------------------------------------------------------------------
\* History records.

NoOutcome == [op |-> "none", kind |-> "none", val |-> PyNone]
NoResp == [status |-> 0, body |-> Absent]

HpInit(n) ==
    [n0 |-> n, nStart |-> 0, nClaim |-> 0, lastReq |-> "none", exc |-> 0,
     good |-> TRUE, allRaised |-> TRUE, completed |-> 0, startKind |-> "none",
     msgSeen |-> FALSE, afterErr |-> FALSE, stop |-> "none", msg |-> PyNone,
     startId |-> Absent, sentGame |-> Absent]

\* A claim request that was not sent, a final response that did not arrive
NoSent == [gameId |-> Absent, points |-> 0]
NoFinal == [status |-> 0, text |-> Absent]

HrInit ==
    [nreq |-> 0, nresp |-> 0, firstStatus |-> 0, firstText |-> Absent,
     sent1 |-> NoSent, sent2 |-> NoSent, final |-> NoFinal]

HaInit ==
    [curAccess |-> Absent, curRefresh |-> Absent, loginOk |-> FALSE,
     sentAuth |-> Absent, sentExp |-> Absent, sentLogged |-> FALSE,
     sentRefresh |-> Absent]

\* A request leaves with the Authorization header the session holds now.
Sent(h) ==
    [h EXCEPT !.sentAuth = headers, !.sentExp = h.curAccess,
              !.sentLogged = h.loginOk]

Init ==
    /\ op = "idle"
    /\ pc = "idle"
    /\ play_passes = 0
    /\ game_id = PyNone
    /\ points = 0
    /\ resp = NoResp
    /\ headers = Absent
    /\ refresh_token = ""
    /\ outcome = NoOutcome
    /\ cancelled = FALSE
    /\ hp = HpInit(0)
    /\ hr = HrInit
    /\ ha = HaInit

\* The coroutine ends: it returns val, or an exception leaves it.
Ends(o, kind, val) ==
    /\ op' = "idle"
    /\ pc' = "idle"
    /\ outcome' = [op |-> o, kind |-> kind, val |-> val]

\* A coroutine of the idle session is called; the frames of earlier calls
\* are gone.
Call(o, p) ==
    /\ op = "idle"
    /\ op' = o
    /\ pc' = p
    /\ points' = 0
    /\ resp' = NoResp
    /\ outcome' = NoOutcome
    /\ cancelled' = FALSE
    /\ hr' = HrInit
    /\ ha' = [ha EXCEPT !.sentAuth = Absent, !.sentExp = Absent,
                        !.sentLogged = FALSE, !.sentRefresh = Absent]

-----------------------------------------------------------------------------
\* play_game (lines 74-102), with start_game (125-134) and claim_game (136-150)

CallPlayGame ==
    /\ \E n \in (-MaxNeg)..MaxPasses :
        /\ play_passes' = n
        /\ hp' = HpInit(n)
    /\ Call("play_game", "loop")
    /\ game_id' = PyNone
    /\ UNCHANGED <<headers, refresh_token>>

\* line 78: while play_passes
PlayLoop ==
    /\ op = "play_game" /\ pc = "loop"
    /\ \/ /\ play_passes # 0
          /\ pc' = "sleep_play"
          /\ UNCHANGED <<op, outcome, hp>>
       \/ /\ play_passes = 0
          /\ Ends("play_game", "return", PyNone)
          /\ hp' = [hp EXCEPT !.stop = "count"]
    /\ UNCHANGED <<play_passes, game_id, points, resp, headers, refresh_token,
                   cancelled, hr, ha>>

\* The locals of a pass (game_id, msg, points) are dead once the pass is
\* over: line 81 assigns game_id before line 83 reads it, and so on.  The
\* model forgets them there.
NewPass(h) ==
    [h EXCEPT !.startKind = "none", !.msg = PyNone, !.startId = Absent,
              !.sentGame = Absent]

\* lines 80, 87, 96: the sleeps of a pass; line 98 follows the third
PlaySleep ==
    /\ op = "play_game"
    /\ \/ /\ pc = "sleep_play"
          /\ pc' = "start_game"
          /\ UNCHANGED <<play_passes, game_id, hp>>
       \/ /\ pc = "sleep_game"
          /\ pc' = "claim_game"
          /\ UNCHANGED <<play_passes, game_id, hp>>
       \/ /\ pc = "sleep_claimed"
          /\ play_passes >= -MaxNeg
          /\ play_passes' = Decrement(play_passes)
          /\ pc' = "loop"
          /\ game_id' = PyNone
          /\ hp' = NewPass(hp)
    /\ UNCHANGED <<op, points, resp, headers, refresh_token, outcome,
                   cancelled, hr, ha>>

\* lines 100-102: the handler of an exception raised inside the try block
PlayRaise(kind, h) ==
    IF PlayCatches(kind)
    THEN /\ pc' = "sleep_error"
         /\ hp' = [NewPass(h) EXCEPT !.exc = @ + 1, !.good = FALSE,
                                     !.afterErr = TRUE]
         /\ game_id' = PyNone
         /\ UNCHANGED <<op, outcome>>
    ELSE /\ Ends("play_game", "raise", kind)
         /\ hp' = [h EXCEPT !.exc = @ + 1, !.good = FALSE]
         /\ UNCHANGED game_id

\* line 102: the error backoff, then the loop test again
PlayErrorSleep ==
    /\ op = "play_game" /\ pc = "sleep_error"
    /\ pc' = "loop"
    /\ UNCHANGED <<op, play_passes, game_id, points, resp, headers,
                   refresh_token, outcome, cancelled, hp, hr, ha>>

\* line 81 with start_game: the request, its JSON body, lines 83-85
PlayStartGame ==
    /\ op = "play_game" /\ pc = "start_game"
    /\ ha' = Sent(ha)
    /\ LET h == [hp EXCEPT !.nStart = @ + 1, !.lastReq = "start",
                            !.afterErr = FALSE]
       IN  \/ /\ hp.exc < MaxExc     \* the request raises (network, timeout)
              /\ PlayRaise("Exception", h)
           \/ \E b \in StartBodies :
                IF ~b.json
                THEN /\ hp.exc < MaxExc      \* resp.json() raises
                     /\ PlayRaise("Exception", h)
                ELSE LET g == StartGameResult(b)
                         kind == IF b.gameId # Absent THEN "id"
                                 ELSE IF b.message # Absent THEN "message"
                                 ELSE "neither"
                         h2 == [h EXCEPT !.allRaised = FALSE,
                                         !.startKind = kind,
                                         !.startId = b.gameId,
                                         !.msgSeen = @ \/ kind = "message",
                                         !.good = @ /\ kind = "id"]
                     IN  /\ game_id' = g
                         /\ IF StopOnStart(g)
                            THEN /\ Ends("play_game", "return", PyNone)
                                 /\ hp' = [h2 EXCEPT !.stop = "start"]
                            ELSE /\ pc' = "sleep_game"
                                 /\ hp' = h2
                                 /\ UNCHANGED <<op, outcome>>
    /\ UNCHANGED <<play_passes, points, resp, headers, refresh_token,
                   cancelled, hr>>

\* claim_game is awaited by play_game (line 89) and may be called on its own.
CallClaimGame ==
    /\ Call("claim_game", "claim_game")
    /\ game_id' \in GameIds
    /\ play_passes' = 0
    /\ hp' = HpInit(0)
    /\ UNCHANGED <<headers, refresh_token>>

\* An exception raised inside claim_game leaves it; in play_game the handler
\* of line 100 receives it.  sent is the history of the call; the frame of a
\* claim_game that play_game awaited is gone when it is left.
ClaimGameRaise(kind, h, sent) ==
    /\ points' = 0
    /\ IF op = "play_game"
       THEN /\ PlayRaise(kind, h)
            /\ hr' = HrInit
       ELSE /\ Ends("claim_game", "raise", kind)
            /\ hr' = sent
            /\ UNCHANGED <<hp, game_id>>

\* line 150, and in play_game lines 89-98
ClaimGameReturn(txt, pts, h, sent) ==
    LET msg == ClaimResult(txt)
    IN  /\ points' = 0
        /\ UNCHANGED game_id
        /\ IF op = "play_game"
           THEN /\ hr' = HrInit
                /\ IF ClaimOk(msg)
                   THEN /\ pc' = "sleep_claimed"
                        /\ hp' = [h EXCEPT !.msg = msg, !.completed = @ + 1]
                        /\ UNCHANGED <<op, outcome>>
                   ELSE /\ Ends("play_game", "return", PyNone)
                        /\ hp' = [h EXCEPT !.msg = msg, !.stop = "claim"]
           ELSE /\ Ends("claim_game", "return", <<msg, pts>>)
                /\ hr' = sent
                /\ hp' = hp

\* lines 140-144: the reward is drawn, the first claim request is sent
ClaimGameFirst ==
    /\ op \in {"play_game", "claim_game"} /\ pc = "claim_game"
    /\ ha' = Sent(ha)
    /\ \E p \in Points :
        LET json_data == JsonData(game_id, p)
            h == [hp EXCEPT !.nClaim = @ + 1, !.lastReq = "claim",
                            !.afterErr = FALSE, !.sentGame = json_data.gameId]
            sent == [HrInit EXCEPT !.nreq = 1, !.sent1 = json_data]
        IN  \/ /\ op = "play_game" => hp.exc < MaxExc
               /\ ClaimGameRaise("Exception", h, sent)
            \/ \E r \in ClaimResponses :
                 LET h2 == [h EXCEPT !.allRaised = FALSE,
                                     !.good = @ /\ r.status = HTTP_OK
                                                /\ r.text = "OK"]
                     got == [sent EXCEPT !.nresp = 1,
                                         !.firstStatus = r.status,
                                         !.firstText = r.text]
                 IN  IF NeedsRetry(r.status)
                     THEN /\ pc' = "claim_sleep"
                          /\ points' = p
                          /\ hr' = got
                          /\ hp' = IF op = "play_game" THEN h2 ELSE hp
                          /\ UNCHANGED <<op, outcome, game_id>>
                     ELSE ClaimGameReturn(r.text, p, h2,
                                          [got EXCEPT !.final = r])
    /\ UNCHANGED <<play_passes, resp, headers, refresh_token, cancelled>>

\* line 145
ClaimGameSleep ==
    /\ op \in {"play_game", "claim_game"} /\ pc = "claim_sleep"
    /\ pc' = "claim_retry"
    /\ UNCHANGED <<op, play_passes, game_id, points, resp, headers,
                   refresh_token, outcome, cancelled, hp, hr, ha>>

\* lines 146-150: the retry with the same json_data; its response is final
ClaimGameRetry ==
    /\ op \in {"play_game", "claim_game"} /\ pc = "claim_retry"
    /\ ha' = Sent(ha)
    /\ LET json_data == RetryJson(JsonData(game_id, points))
           h == [hp EXCEPT !.nClaim = @ + 1, !.lastReq = "claim",
                           !.afterErr = FALSE, !.sentGame = json_data.gameId]
           sent == [hr EXCEPT !.nreq = @ + 1, !.sent2 = json_data]
       IN  \/ /\ op = "play_game" => hp.exc < MaxExc
              /\ ClaimGameRaise("Exception", h, sent)
           \/ \E r \in ClaimResponses :
                ClaimGameReturn(r.text, points,
                                [h EXCEPT !.allRaised = FALSE],
                                [sent EXCEPT !.nresp = @ + 1, !.final = r])
    /\ UNCHANGED <<play_passes, resp, headers, refresh_token, cancelled>>

-----------------------------------------------------------------------------
\* The single-retry operations on JSON endpoints: claim (152-163), start
\* (165-173), friend_balance (175-193), get_referral_code (195-210) and
\* friend_claim (212-221).

RetryOps ==
    {"claim", "start", "friend_balance", "get_referral_code", "friend_claim"}

Keys ==
    {"timestamp", "availableBalance", "amountForClaim", "canClaim",
     "referralToken", "claimBalance"}

\* A body: whether it parses as JSON, the keys the object has, the value its
\* fields carry (one tag for all of them) and its millisecond timestamp.
JsonBodies ==
    {[json |-> TRUE, has |-> Keys, tag |-> t, timestamp |-> ms] :
        t \in {"v1", "v2"}, ms \in {1500}}
    \cup {[json |-> TRUE, has |-> {}, tag |-> "v1", timestamp |-> 0],
          [json |-> FALSE, has |-> {}, tag |-> "v1", timestamp |-> 0]}

JsonResponses == [status : Statuses, body : JsonBodies]

\* resp_json.get(k)
Get(b, k) == IF k \in b.has THEN b.tag ELSE PyNone

SecondsFloor(ms) == ms \div 1000

\* int(x / 1000) of an integer x: the quotient truncated toward zero
Seconds(ms) == IF ms >= 0 THEN ms \div 1000 ELSE -((-ms) \div 1000)

\* friend_balance, get_referral_code and friend_claim await resp.json() on
\* the first response before they look at its status (lines 180, 200, 214).
ParsesFirst(o) == o \in {"friend_balance", "get_referral_code", "friend_claim"}

\* The body of the final response makes the operation raise: resp.json() on
\* a body that is not JSON, and in claim None / 1000 (line 163).
FinalRaises(o, b) ==
    CASE o = "start" -> FALSE
      [] o = "claim" -> ~b.json \/ "timestamp" \notin b.has
      [] OTHER -> ~b.json

\* The value returned from the final response
FinalResult(o, b) ==
    CASE o = "claim" -> <<Seconds(b.timestamp), Get(b, "availableBalance")>>
      [] o = "start" -> PyNone
      [] o = "friend_balance" ->
            <<Get(b, "amountForClaim"), Get(b, "canClaim")>>
      [] o = "get_referral_code" -> Get(b, "referralToken")
      [] o = "friend_claim" -> Get(b, "claimBalance")

Finish(o, b) ==
    IF FinalRaises(o, b)
    THEN Ends(o, "raise", "Exception")
    ELSE Ends(o, "return", FinalResult(o, b))

CallRetryOp ==
    /\ \E o \in RetryOps : Call(o, "request")
    /\ play_passes' = 0
    /\ game_id' = PyNone
    /\ hp' = HpInit(0)
    /\ UNCHANGED <<headers, refresh_token>>

\* The first request and what the operation does with its response
RetryRequest ==
    /\ op \in RetryOps /\ pc = "request"
    /\ ha' = Sent(ha)
    /\ \/ /\ Ends(op, "raise", "Exception")     \* the request raises
          /\ hr' = [HrInit EXCEPT !.nreq = 1]
          /\ UNCHANGED resp
       \/ \E r \in JsonResponses :
            /\ hr' = [HrInit EXCEPT !.nreq = 1, !.nresp = 1,
                                    !.firstStatus = r.status]
            /\ resp' = r
            /\ IF ParsesFirst(op) /\ ~r.body.json
               THEN Ends(op, "raise", "Exception")
               ELSE IF op = "friend_balance" \/ NeedsRetry(r.status)
                    THEN pc' = "sleep" /\ UNCHANGED <<op, outcome>>
                    ELSE Finish(op, r.body)
    /\ UNCHANGED <<play_passes, game_id, points, headers, refresh_token,
                   cancelled, hp>>

\* asyncio.sleep(1): before the retry, and in friend_balance (line 181)
\* before the status is looked at
RetrySleep ==
    /\ op \in RetryOps /\ pc = "sleep"
    /\ IF NeedsRetry(resp.status)
       THEN pc' = "retry" /\ UNCHANGED <<op, outcome>>
       ELSE Finish(op, resp.body)
    /\ UNCHANGED <<play_passes, game_id, points, resp, headers, refresh_token,
                   cancelled, hp, hr, ha>>

\* The second request; its response is final whatever its status
RetryAgain ==
    /\ op \in RetryOps /\ pc = "retry"
    /\ ha' = Sent(ha)
    /\ \/ /\ Ends(op, "raise", "Exception")
          /\ hr' = [hr EXCEPT !.nreq = @ + 1]
          /\ UNCHANGED resp
       \/ \E r \in JsonResponses :
            /\ resp' = r
            /\ hr' = [hr EXCEPT !.nreq = @ + 1, !.nresp = @ + 1]
            /\ Finish(op, r.body)
    /\ UNCHANGED <<play_passes, game_id, points, headers, refresh_token,
                   cancelled, hp>>

-----------------------------------------------------------------------------
\* The operations of one request: claim_task (36-46), start_complete_task
\* (48-56), get_tasks (58-72), claim_daily_reward (104-112), start_game
\* called on its own (125-134) and balance (223-243).

SingleOps ==
    {"claim_task", "start_complete_task", "get_tasks", "claim_daily_reward",
     "start_game", "balance"}

DropsSession == headers' = Absent /\ UNCHANGED refresh_token

\* None of these operations assigns session.headers or self.refresh_token.
KeepsSession == UNCHANGED <<headers, refresh_token>>

\* JSON values the tasks endpoint may answer with: lists of tasks, an object,
\* a string, a number, null; NotJson is a body that does not parse.
JsonList(items) == [type |-> "list", items |-> items]
TaskValues ==
    {JsonList(<<>>), JsonList(<<"t1">>), JsonList(<<"t1", "t2">>),
     [type |-> "object", items |-> <<"t1">>],
     [type |-> "string", items |-> <<>>],
     [type |-> "number", items |-> <<>>],
     [type |-> "null", items |-> <<>>]}
NotJson == [type |-> "notjson", items |-> <<>>]

\* get_tasks, line 68: isinstance(resp_json, list)
IsList(v) == v.type = "list"

GetTasksRaw(v) == v

\* get_tasks, lines 68-72
GetTasksResult(v) == IF IsList(v) THEN v ELSE JsonList(<<>>)

\* The "status" field of the object the task endpoints answer with
TaskStatuses == {"CLAIMED", "FINISHED", Absent}

\* claim_task, line 46: resp_json.get('status') == "CLAIMED"
ClaimTaskResult(status) == IF status = "CLAIMED" THEN PyTrue ELSE PyFalse

\* An int or None: balance returns such values.
Some(n) == [some |-> TRUE, v |-> n]
NoneInt == [some |-> FALSE, v |-> 0]

\* Millisecond values of the balance endpoint
Millis == {-1500, -1, 0, 1500}

\* The "farming" member of the balance object: missing, null, the empty
\* object, or an object with members, among them startTime and endTime or
\* not (None when missing).
Farmings ==
    {[kind |-> k, startTime |-> NoneInt, endTime |-> NoneInt] :
        k \in {"absent", "null", "empty", "object"}}
    \cup {[kind |-> "object", startTime |-> Some(ms),
           endTime |-> IF e THEN Some(ms + 2000) ELSE NoneInt] :
            ms \in Millis, e \in BOOLEAN}
    \cup {[kind |-> "object", startTime |-> NoneInt, endTime |-> Some(1500)]}

\* The balance object: timestamp and playPasses (None when missing), farming
BalanceBodies ==
    {[json |-> TRUE, timestamp |-> t, playPasses |-> p, farming |-> f] :
        t \in {NoneInt, Some(1500)}, p \in {NoneInt, Some(1)},
        f \in Farmings}
    \cup {[json |-> FALSE, timestamp |-> NoneInt, playPasses |-> NoneInt,
           farming |-> [kind |-> "absent", startTime |-> NoneInt,
                        endTime |-> NoneInt]]}

\* bool(resp_json.get("farming")), line 236: a missing member gives NoneInt, and
\* NoneInt, null and the empty object are false
FarmingTruthy(f) == f.kind = "object"

\* lines 240-242: int(x / 1000) if x is not None else None
OptSeconds(x) == IF x.some THEN Some(Seconds(x.v)) ELSE NoneInt

\* balance, lines 230-243
BalanceResult(b) ==
    LET start_time == IF FarmingTruthy(b.farming)
                      THEN b.farming.startTime ELSE NoneInt
        end_time == IF FarmingTruthy(b.farming)
                    THEN b.farming.endTime ELSE NoneInt
    IN  <<OptSeconds(b.timestamp), OptSeconds(start_time),
          OptSeconds(end_time), b.playPasses>>

\* The object the task endpoints answer with, or a body that is not JSON
TaskBodies ==
    {[json |-> TRUE, status |-> st] : st \in TaskStatuses}
    \cup {[json |-> FALSE, status |-> Absent]}

CallSingleOp ==
    /\ \E o \in SingleOps : Call(o, "request")
    /\ play_passes' = 0
    /\ game_id' = PyNone
    /\ hp' = HpInit(0)
    /\ UNCHANGED <<headers, refresh_token>>

\* What a step of these operations leaves alone
SingleFrame ==
    /\ KeepsSession
    /\ UNCHANGED <<play_passes, game_id, points, cancelled, hp, hr>>

\* lines 40-46
ClaimTask ==
    /\ op = "claim_task" /\ pc = "request"
    /\ ha' = Sent(ha)
    /\ \/ /\ Ends(op, "raise", "Exception")      \* the request raises
          /\ UNCHANGED resp
       \/ \E st \in Statuses, b \in TaskBodies :
            /\ resp' = [status |-> st, body |-> b]
            /\ IF ~b.json
               THEN Ends(op, "raise", "Exception")
               ELSE Ends(op, "return", ClaimTaskResult(b.status))
    /\ SingleFrame

\* lines 52-56: nothing is returned
StartCompleteTask ==
    /\ op = "start_complete_task" /\ pc = "request"
    /\ ha' = Sent(ha)
    /\ \/ /\ Ends(op, "raise", "Exception")
          /\ UNCHANGED resp
       \/ \E st \in Statuses, b \in TaskBodies :
            /\ resp' = [status |-> st, body |-> b]
            /\ IF ~b.json
               THEN Ends(op, "raise", "Exception")
               ELSE Ends(op, "return", PyNone)
    /\ SingleFrame

\* lines 62-72
GetTasks ==
    /\ op = "get_tasks" /\ pc = "request"
    /\ ha' = Sent(ha)
    /\ \/ /\ Ends(op, "raise", "Exception")
          /\ UNCHANGED resp
       \/ \E st \in Statuses, v \in TaskValues \cup {NotJson} :
            /\ resp' = [status |-> st, body |-> v]
            /\ IF v = NotJson
               THEN Ends(op, "raise", "Exception")
               ELSE Ends(op, "return", GetTasksResult(v))
    /\ SingleFrame

\* lines 129-134, called on its own
StartGame ==
    /\ op = "start_game" /\ pc = "request"
    /\ ha' = Sent(ha)
    /\ \/ /\ Ends(op, "raise", "Exception")
          /\ UNCHANGED resp
       \/ \E st \in Statuses, b \in StartBodies :
            /\ resp' = [status |-> st, body |-> b]
            /\ IF ~b.json
               THEN Ends(op, "raise", "Exception")
               ELSE Ends(op, "return", StartGameResult(b))
    /\ SingleFrame

\* lines 108-110: the request and its text
ClaimDailyReward ==
    /\ op = "claim_daily_reward" /\ pc = "request"
    /\ ha' = Sent(ha)
    /\ \/ /\ Ends(op, "raise", "Exception")
          /\ UNCHANGED resp
       \/ \E r \in ClaimResponses :
            /\ resp' = [status |-> r.status, body |-> r.text]
            /\ pc' = "sleep"
            /\ UNCHANGED <<op, outcome>>
    /\ SingleFrame

\* lines 111-112
ClaimDailySleep ==
    /\ op = "claim_daily_reward" /\ pc = "sleep"
    /\ Ends(op, "return", ClaimResult(resp.body))
    /\ SingleFrame
    /\ UNCHANGED <<resp, ha>>

\* lines 227-228: the request and its JSON body
Balance ==
    /\ op = "balance" /\ pc = "request"
    /\ ha' = Sent(ha)
    /\ \/ /\ Ends(op, "raise", "Exception")
          /\ UNCHANGED resp
       \/ \E st \in Statuses, b \in BalanceBodies :
            /\ resp' = [status |-> st, body |-> b]
            /\ IF ~b.json
               THEN Ends(op, "raise", "Exception")
               ELSE pc' = "sleep" /\ UNCHANGED <<op, outcome>>
    /\ SingleFrame

\* lines 229-243
BalanceSleep ==
    /\ op = "balance" /\ pc = "sleep"
    /\ Ends(op, "return", BalanceResult(resp.body))
    /\ SingleFrame
    /\ UNCHANGED <<resp, ha>>

-----------------------------------------------------------------------------
\* login (245-260), register (262-282) and refresh (114-123)

Limit == <<"limit">>
Connected == <<"already", "connected">>

\* `pat in text`, the text being a sequence of words
Contains(text, pat) ==
    \E i \in 1..(Len(text) - Len(pat) + 1) :
        SubSeq(text, i, i + Len(pat) - 1) = pat

\* The bodies of the identity endpoint: whether the body parses as JSON,
\* whether the object has a "token" object, the fields of that object (None
\* when missing) and the text of the body.
AuthBodies ==
    {[json |-> TRUE, token |-> TRUE, access |-> "a1", refresh |-> "r1",
      text |-> <<"token">>],
     [json |-> TRUE, token |-> TRUE, access |-> "a2", refresh |-> "r2",
      text |-> <<"token">>],
     [json |-> TRUE, token |-> TRUE, access |-> "a1", refresh |-> PyNone,
      text |-> <<"token">>],
     [json |-> TRUE, token |-> TRUE, access |-> PyNone, refresh |-> "r1",
      text |-> <<"token">>],
     [json |-> TRUE, token |-> FALSE, access |-> PyNone, refresh |-> PyNone,
      text |-> <<"message", "unauthorized">>],
     [json |-> TRUE, token |-> FALSE, access |-> PyNone, refresh |-> PyNone,
      text |-> <<"referral", "limit", "reached">>],
     [json |-> TRUE, token |-> FALSE, access |-> PyNone, refresh |-> PyNone,
      text |-> <<"account", "already", "connected">>],
     [json |-> TRUE, token |-> TRUE, access |-> "a2", refresh |-> "r2",
      text |-> <<"token", "limit">>],
     [json |-> TRUE, token |-> FALSE, access |-> PyNone, refresh |-> PyNone,
      text |-> <<"already", "connected", "limit">>],
     [json |-> FALSE, token |-> FALSE, access |-> PyNone, refresh |-> PyNone,
      text |-> <<"limit", "reached">>],
     [json |-> FALSE, token |-> FALSE, access |-> PyNone, refresh |-> PyNone,
      text |-> <<"already", "connected">>],
     [json |-> FALSE, token |-> FALSE, access |-> PyNone, refresh |-> PyNone,
      text |-> <<"bad", "gateway">>]}

\* The bodies of auth/refresh: a flat object with "access" and "refresh"
RefreshBodies ==
    {[json |-> TRUE, access |-> "a1", refresh |-> "r1"],
     [json |-> TRUE, access |-> "a2", refresh |-> "r2"],
     [json |-> TRUE, access |-> "a2", refresh |-> PyNone],
     [json |-> TRUE, access |-> PyNone, refresh |-> "r1"],
     [json |-> FALSE, access |-> PyNone, refresh |-> PyNone]}

BearerNoSpace(access) == "Bearer" \o access

\* lines 122, 256, 280: "Bearer " + access
Bearer(access) == "Bearer " \o access

\* lines 256 and 280 raise before anything is assigned: resp.json() on a body
\* that is not JSON, None.get when "token" is missing, "Bearer " + None
TokenRaises(b) == ~b.json \/ ~b.token \/ b.access = PyNone

\* line 122 raises: resp.json(), "Bearer " + None
RefreshRaises(b) == ~b.json \/ b.access = PyNone

\* login, line 259: a bare `except:` catches every exception
LoginCatches(kind) == TRUE

InstallHeaderOnly(access, refresh) ==
    /\ headers' = Bearer(access)
    /\ UNCHANGED refresh_token

\* line 117: json_data, the token refresh() sends
RefreshData(token) == token

\* lines 256-257, 280-281, 122-123: the header and the refresh token
Install(access, refresh) ==
    /\ headers' = Bearer(access)
    /\ refresh_token' = refresh

CallAuth ==
    /\ \/ Call("login", "get_tg_web_data")
       \/ Call("register", "get_tg_web_data")
       \/ Call("refresh", "post")
    /\ play_passes' = 0
    /\ game_id' = PyNone
    /\ hp' = HpInit(0)
    /\ UNCHANGED <<headers, refresh_token>>

\* lines 259-260
LoginRaise(kind) ==
    IF LoginCatches(kind)
    THEN Ends("login", "return", PyFalse)
    ELSE Ends("login", "raise", kind)

\* lines 250 and 267: the identity provider answers or raises
GetTgWebData ==
    /\ op \in {"login", "register"} /\ pc = "get_tg_web_data"
    /\ \/ pc' = "post" /\ UNCHANGED <<op, outcome>>
       \/ IF op = "login"
          THEN LoginRaise("Exception")
          ELSE Ends("register", "raise", "Exception")
    /\ UNCHANGED <<play_passes, game_id, points, resp, headers, refresh_token,
                   cancelled, hp, hr, ha>>

\* lines 252-258
LoginPost ==
    /\ op = "login" /\ pc = "post"
    /\ \/ /\ LoginRaise("Exception")        \* the request raises
          /\ ha' = Sent(ha)
          /\ UNCHANGED <<headers, refresh_token, resp>>
       \/ \E b \in AuthBodies, st \in Statuses :
            /\ resp' = [status |-> st, body |-> b]
            /\ IF TokenRaises(b)
               THEN /\ LoginRaise("Exception")
                    /\ ha' = Sent(ha)
                    /\ UNCHANGED <<headers, refresh_token>>
               ELSE /\ Install(b.access, b.refresh)
                    /\ Ends("login", "return", PyTrue)
                    /\ ha' = [Sent(ha) EXCEPT !.curAccess = b.access,
                                              !.curRefresh = b.refresh,
                                              !.loginOk = TRUE]
    /\ UNCHANGED <<play_passes, game_id, points, cancelled, hp, hr>>

\* lines 272-282
RegisterPost ==
    /\ op = "register" /\ pc = "post"
    /\ \/ /\ Ends("register", "raise", "Exception")    \* the request raises
          /\ ha' = Sent(ha)
          /\ UNCHANGED <<headers, refresh_token, resp>>
       \/ \E b \in AuthBodies, st \in Statuses :
            /\ resp' = [status |-> st, body |-> b]
            /\ IF ~b.json                                  \* line 274
               THEN /\ Ends("register", "raise", "Exception")
                    /\ ha' = Sent(ha)
                    /\ UNCHANGED <<headers, refresh_token>>
               ELSE IF Contains(b.text, Limit)             \* line 275
               THEN /\ Ends("register", "raise", "RefCodeError")
                    /\ ha' = Sent(ha)
                    /\ UNCHANGED <<headers, refresh_token>>
               ELSE IF Contains(b.text, Connected)         \* line 277
               THEN /\ Ends("register", "raise", "AccountUsedError")
                    /\ ha' = Sent(ha)
                    /\ UNCHANGED <<headers, refresh_token>>
               ELSE IF TokenRaises(b)                      \* line 280
               THEN /\ Ends("register", "raise", "Exception")
                    /\ ha' = Sent(ha)
                    /\ UNCHANGED <<headers, refresh_token>>
               ELSE /\ Install(b.access, b.refresh)
                    /\ Ends("register", "return", PyTrue)
                    /\ ha' = [Sent(ha) EXCEPT !.curAccess = b.access,
                                              !.curRefresh = b.refresh]
    /\ UNCHANGED <<play_passes, game_id, points, cancelled, hp, hr>>

\* lines 118-123
RefreshPost ==
    /\ op = "refresh" /\ pc = "post"
    /\ LET sent == [Sent(ha) EXCEPT !.sentRefresh = RefreshData(refresh_token)]
       IN
       \/ /\ Ends("refresh", "raise", "Exception")     \* the request raises
          /\ ha' = sent
          /\ UNCHANGED <<headers, refresh_token, resp>>
       \/ \E b \in RefreshBodies, st \in Statuses :
            /\ resp' = [status |-> st, body |-> b]
            /\ IF RefreshRaises(b)
               THEN /\ Ends("refresh", "raise", "Exception")
                    /\ ha' = sent
                    /\ UNCHANGED <<headers, refresh_token>>
               ELSE /\ Install(b.access, b.refresh)
                    /\ Ends("refresh", "return", PyNone)
                    /\ ha' = [sent EXCEPT !.curAccess = b.access,
                                          !.curRefresh = b.refresh]
    /\ UNCHANGED <<play_passes, game_id, points, cancelled, hp, hr>>

-----------------------------------------------------------------------------
\* The caller cancels the task while the coroutine is suspended at an await:
\* CancelledError is raised at that await.

Awaiting == op # "idle" /\ pc # "loop"

CancelPlayGame ==
    /\ op = "play_game" /\ Awaiting /\ ~cancelled
    /\ cancelled' = TRUE
    /\ IF pc = "sleep_error"
       THEN /\ Ends("play_game", "raise", "CancelledError")
            /\ hp' = [hp EXCEPT !.good = FALSE]
            /\ UNCHANGED game_id
       ELSE PlayRaise("CancelledError", hp)
    /\ points' = 0
    /\ UNCHANGED <<play_passes, resp, headers, refresh_token, hr, ha>>

\* Cancellation inside login's try block meets the bare except of line 259;
\* the other coroutines have no handler.
CancelOther ==
    /\ op \notin {"idle", "play_game"} /\ ~cancelled
    /\ cancelled' = TRUE
    /\ IF op = "login"
       THEN LoginRaise("CancelledError")
       ELSE Ends(op, "raise", "CancelledError")
    /\ UNCHANGED <<play_passes, game_id, points, resp, headers, refresh_token,
                   hp, hr, ha>>

Next ==
    \/ CallPlayGame
    \/ PlayLoop
    \/ PlaySleep
    \/ PlayErrorSleep
    \/ PlayStartGame
    \/ CallClaimGame
    \/ ClaimGameFirst
    \/ ClaimGameSleep
    \/ ClaimGameRetry
    \/ CancelPlayGame
    \/ CallRetryOp
    \/ RetryRequest
    \/ RetrySleep
    \/ RetryAgain
    \/ CallSingleOp
    \/ ClaimTask
    \/ StartCompleteTask
    \/ GetTasks
    \/ StartGame
    \/ ClaimDailyReward
    \/ ClaimDailySleep
    \/ Balance
    \/ BalanceSleep
    \/ CallAuth
    \/ GetTgWebData
    \/ LoginPost
    \/ RegisterPost
    \/ RefreshPost
    \/ CancelOther

Spec == Init /\ [][Next]_vars

\* The steps of the running coroutine.  The event loop resumes a coroutine
\* whenever the sleep or the response it awaits completes.
Step ==
    \/ PlayLoop
    \/ PlaySleep
    \/ PlayErrorSleep
    \/ PlayStartGame
    \/ ClaimGameFirst
    \/ ClaimGameSleep
    \/ ClaimGameRetry
    \/ RetryRequest
    \/ RetrySleep
    \/ RetryAgain
    \/ ClaimTask
    \/ StartCompleteTask
    \/ GetTasks
    \/ StartGame
    \/ ClaimDailyReward
    \/ ClaimDailySleep
    \/ Balance
    \/ BalanceSleep
    \/ GetTgWebData
    \/ LoginPost
    \/ RegisterPost
    \/ RefreshPost

LiveSpec == Spec /\ WF_vars(Step)

-----------------------------------------------------------------------------
\* Properties.

PlayRunning == op = "play_game"
PlayEnded == op = "idle" /\ outcome.op = "play_game"
PlayReturned == PlayEnded /\ outcome.kind = "return"

\* The safety part of C1: play_game(n), n >= 0, against a service whose every start answers with
\* a game id and whose every claim answers 200 'OK' sends start and claim
\* requests strictly alternating, beginning with a start, never more than n
\* of each, and returns after exactly n of each with the count at 0.
C1_GoodRunInv ==
    ((PlayRunning \/ PlayEnded) /\ hp.good /\ hp.n0 >= 0) =>
        /\ hp.lastReq = "none" => hp.nStart = 0 /\ hp.nClaim = 0
        /\ hp.lastReq = "start" => hp.nStart = hp.nClaim + 1
        /\ hp.lastReq = "claim" => hp.nStart = hp.nClaim
        /\ hp.nStart <= hp.n0
        /\ play_passes \in 0..hp.n0
        /\ PlayEnded =>
            /\ outcome.kind = "return"
            /\ hp.nStart = hp.n0
            /\ hp.nClaim = hp.n0
            /\ play_passes = 0

\* C1: the invariant above holds throughout, and a run of play_game(n),
\* n >= 0, against such a service ends (it returns).
C1_GoodService ==
    /\ []C1_GoodRunInv
    /\ (PlayRunning /\ hp.good /\ hp.n0 >= 0) ~> (PlayEnded \/ ~hp.good)

C1_Witness ==
    /\ PlayReturned /\ hp.good
    /\ hp.n0 = MaxPasses /\ hp.nStart = MaxPasses /\ hp.nClaim = MaxPasses
    /\ play_passes = 0

\* C2: once a start request has been answered with a message instead of a
\* game id, whatever the text, play_game has returned: that start is the last
\* request, and the passes completed are one less than the starts sent.
C2_AnyMessageStops ==
    (hp.msgSeen /\ hp.n0 >= 1) =>
        /\ PlayReturned
        /\ hp.lastReq = "start"
        /\ hp.completed = hp.nStart - 1

\* C3: a single-retry operation that has received a first response and was
\* not cancelled has sent exactly two requests when that response's status
\* was not 200 and exactly one when it was 200, whatever its body.
C3_SingleRetry ==
    /\ hr.nreq <= 2
    /\ (op = "idle" /\ outcome.op \in RetryOps \cup {"claim_game"}
            /\ hr.firstStatus # 0 /\ ~cancelled) =>
        /\ hr.firstStatus # 200 => hr.nreq = 2
        /\ hr.firstStatus = 200 => hr.nreq = 1

\* C4: the count changes only by one decrement after a pass whose start
\* returned a game id and whose claim result was the success marker; a claim
\* result that is not the marker ends the loop; at the loop test the cycles
\* completed equal the initial count minus the remaining count.
C4_DecrementDiscipline ==
    /\ [][(PlayRunning /\ hp.n0 >= 1 /\ play_passes' # play_passes) =>
            /\ play_passes' = play_passes - 1
            /\ hp.startKind = "id"
            /\ hp.msg = PyTrue]_vars
    /\ [](PlayRunning /\ hp.msg \notin {PyNone, PyTrue} => FALSE)
    /\ [](PlayRunning /\ pc = "loop" => hp.completed = hp.n0 - play_passes)
    /\ [](PlayReturned => hp.completed = hp.n0 - play_passes)

\* C5: an exception raised by a step of a pass does not leave play_game: the
\* count is unchanged, the error backoff follows, the loop test comes next,
\* and the next request sent is a start request.
C5_ExceptionRetries ==
    /\ [][(PlayRunning /\ hp'.exc = hp.exc + 1 /\ ~cancelled') =>
            /\ op' = "play_game"
            /\ pc' = "sleep_error"
            /\ play_passes' = play_passes]_vars
    /\ [][(PlayRunning /\ pc = "sleep_error" /\ ~cancelled') =>
            /\ op' = "play_game"
            /\ pc' = "loop"
            /\ play_passes' = play_passes
            /\ play_passes # 0]_vars
    /\ [][(PlayRunning /\ hp.afterErr
                /\ hp'.nStart + hp'.nClaim # hp.nStart + hp.nClaim) =>
            /\ hp'.lastReq = "start"
            /\ hp'.nStart = hp.nStart + 1
            /\ play_passes' = play_passes]_vars
    /\ [](PlayEnded /\ outcome.kind = "raise" =>
            cancelled /\ outcome.val = "CancelledError")

C5_Witness ==
    /\ PlayRunning /\ pc = "sleep_game"
    /\ hp.exc = MaxExc /\ hp.nClaim >= 1 /\ hp.completed = 0
    /\ play_passes = hp.n0

\* C6: once login has returned True, every request leaves with the
\* Authorization header "Bearer " + the access value of the latest successful
\* login, register or refresh response.
C6_BearerHeader ==
    /\ ha.sentLogged => ha.sentAuth = "Bearer " \o ha.sentExp
    /\ ha.loginOk => headers = "Bearer " \o ha.curAccess

C6_Witness ==
    /\ PlayRunning /\ hp.nStart = 1
    /\ ha.sentLogged /\ ha.sentAuth = "Bearer a2"
    /\ refresh_token = PyNone

\* C7: register raises RefCodeError whenever the text of the response
\* contains 'limit' and AccountUsedError whenever it contains 'already
\* connected', for every status and body, and installs no token then.
C7_RegisterErrors ==
    (op = "idle" /\ outcome.op = "register" /\ resp.status # 0
            /\ ~cancelled) =>
        /\ Contains(resp.body.text, Limit) =>
            outcome.kind = "raise" /\ outcome.val = "RefCodeError"
        /\ Contains(resp.body.text, Connected) =>
            outcome.kind = "raise" /\ outcome.val = "AccountUsedError"

\* C8: login never raises; it returns False on every failure (provider
\* error, exception of the request, malformed body, missing token object or
\* token field) and True only when a token was installed.
C8_LoginNeverRaises ==
    (op = "idle" /\ outcome.op = "login") =>
        /\ outcome.kind = "return"
        /\ outcome.val \in {PyTrue, PyFalse}
        /\ outcome.val = PyTrue =>
            /\ resp.status # 0
            /\ headers = "Bearer " \o resp.body.access
            /\ refresh_token = resp.body.refresh
        /\ (resp.status = 0 \/ ~resp.body.json \/ ~resp.body.token
                \/ resp.body.access = PyNone
                \/ resp.body.refresh = PyNone) =>
            outcome.val = PyFalse

\* C9: a cancellation delivered to play_game or login at an await ends the
\* coroutine with CancelledError leaving it.
C9_CancellationPropagates ==
    (cancelled /\ (op \in {"play_game", "login"}
                    \/ (op = "idle" /\ outcome.op \in {"play_game", "login"})))
        => /\ op = "idle"
           /\ outcome.kind = "raise"
           /\ outcome.val = "CancelledError"

\* The conditions under which play_game leaves its loop: the count is zero
\* at the loop test, start_game gave nothing or "cannot start game", the claim
\* result is not True, or the caller cancelled; in no other state has it ended.
StartSignal == game_id \in {PyNone, "", "cannot start game"}

C10_EndsExactlyWhen ==
    /\ PlayEnded =>
        \/ outcome.kind = "return" /\ hp.stop = "count" /\ play_passes = 0
        \/ outcome.kind = "return" /\ hp.stop = "start" /\ StartSignal
        \/ outcome.kind = "return" /\ hp.stop = "claim" /\ hp.msg # PyTrue
        \/ outcome.kind = "raise" /\ cancelled
    /\ (PlayRunning /\ pc \in {"sleep_game", "claim_game", "claim_sleep",
                              "claim_retry"}) => ~StartSignal
    /\ (PlayRunning /\ pc = "sleep_claimed") => hp.msg = PyTrue
    /\ (PlayRunning /\ pc = "sleep_play") => play_passes # 0

ClaimGameReturned ==
    op = "idle" /\ outcome.op = "claim_game" /\ outcome.kind = "return"

\* C11: claim_game returns (True, points) exactly when the text of the final
\* response is 'OK' and (that text, points) otherwise, where points is the
\* amount it submitted; the status of the final response does not enter.
C11_ClaimGameResult ==
    ClaimGameReturned =>
        /\ hr.final # NoFinal
        /\ (outcome.val[1] = PyTrue) <=> (hr.final.text = "OK")
        /\ hr.final.text # "OK" => outcome.val[1] = hr.final.text
        /\ outcome.val[2] = hr.sent1.points
        /\ outcome.val[2] \in Points

C11_Witness ==
    /\ ClaimGameReturned
    /\ hr.final = [status |-> 500, text |-> "OK"]
    /\ outcome.val = <<PyTrue, MaxPoints>>

\* C18: the reward is drawn once per claim_game call: a retry carries the
\* gameId and the points of the first attempt, the result is computed from
\* the second response alone, and the points returned are those submitted.
C18_RetrySameData ==
    /\ (hr.sent2 # NoSent) => (hr.nreq = 2 /\ hr.sent2 = hr.sent1)
    /\ (ClaimGameReturned /\ hr.nreq = 2) =>
        /\ hr.sent2 = hr.sent1
        /\ outcome.val[1] =
              (IF hr.final.text = "OK" THEN PyTrue ELSE hr.final.text)
        /\ outcome.val[2] = hr.sent2.points

C18_Witness ==
    /\ ClaimGameReturned /\ hr.nreq = 2
    /\ hr.firstText = "OK" /\ hr.final.text # "OK"
    /\ outcome.val[1] = hr.final.text
    /\ hr.sent2.points = MaxPoints

AuthOps == {"login", "register", "refresh"}

\* C12: the Authorization header and the stored refresh token are written
\* only by login, register and refresh: no step of any other operation, and
\* no call of an operation, changes either, whether the operation returns
\* or raises.
C12_AuthFrame ==
    [][(op \notin AuthOps) =>
            /\ headers' = headers
            /\ refresh_token' = refresh_token]_vars

C12_Witness ==
    /\ op = "idle" /\ outcome.op = "balance" /\ outcome.kind = "raise"
    /\ headers = "Bearer a1" /\ refresh_token = "r1"

AuthSucceeds ==
    /\ op \in AuthOps /\ op' = "idle"
    /\ outcome'.kind = "return" /\ outcome'.val # PyFalse

AuthFails ==
    /\ op \in AuthOps /\ op' = "idle"
    /\ (outcome'.kind = "raise" \/ outcome'.val = PyFalse)

\* C13: the access token of the header and the stored refresh token always
\* come from one and the same response: a login, register or refresh that
\* succeeds replaces both with the values of its response (refresh having
\* sent the refresh token stored before), one that returns False or raises
\* leaves both as they were.
C13_OneAuthToken ==
    /\ [](IF ha.curAccess = Absent
          THEN headers = Absent /\ refresh_token = ""
          ELSE /\ headers = "Bearer " \o ha.curAccess
               /\ refresh_token = ha.curRefresh)
    /\ [][AuthSucceeds =>
            /\ headers' = "Bearer " \o resp'.body.access
            /\ refresh_token' = resp'.body.refresh]_vars
    /\ [][AuthFails =>
            /\ headers' = headers
            /\ refresh_token' = refresh_token]_vars
    /\ [][(op = "refresh" /\ pc = "post" /\ ~cancelled') =>
            ha'.sentRefresh = refresh_token]_vars

C13_Witness ==
    /\ op = "idle" /\ outcome.op = "refresh" /\ outcome.kind = "return"
    /\ ha.sentRefresh = "r1"
    /\ headers = "Bearer a2" /\ refresh_token = "r2"

FriendOps == {"friend_balance", "get_referral_code", "friend_claim"}

\* C14: friend_balance, get_referral_code and friend_claim, once the first
\* response has come with a status other than 200 (and the caller has not
\* cancelled), send the retry and return the values extracted from the second
\* response, None for the fields it lacks, whatever the status of the second
\* response; they do not raise.
C14_RetriedValues ==
    (op = "idle" /\ outcome.op \in FriendOps /\ ~cancelled
        /\ hr.firstStatus \notin {0, 200}) =>
        /\ outcome.kind = "return"
        /\ hr.nreq = 2
        /\ outcome.val = FinalResult(outcome.op, resp.body)

BalanceReturned ==
    op = "idle" /\ outcome.op = "balance" /\ outcome.kind = "return"

\* C15 as stated: balance() returns None for windowStart and for windowEnd
\* exactly when the response has no farming object (none, or null), and
\* floor(startTime / 1000), floor(endTime / 1000) whenever it has one.
C15_Original ==
    BalanceReturned =>
        LET f == resp.body.farming
            absent == f.kind \in {"absent", "null"}
        IN  /\ (outcome.val[2] = NoneInt) <=> absent
            /\ (outcome.val[3] = NoneInt) <=> absent
            /\ ~absent =>
                /\ outcome.val[2] = Some(f.startTime.v \div 1000)
                /\ outcome.val[3] = Some(f.endTime.v \div 1000)

\* C15, amended: windowStart is None exactly when the farming member is
\* missing, null or the empty object, or has no startTime; otherwise it is
\* startTime / 1000 truncated toward zero, which is floor(startTime / 1000)
\* for startTime >= 0.  windowEnd likewise, from endTime.
C15_BalanceWindow ==
    BalanceReturned =>
        LET f == resp.body.farming
            start == f.kind = "object" /\ f.startTime.some
            end == f.kind = "object" /\ f.endTime.some
        IN  /\ (outcome.val[2] = NoneInt) <=> ~start
            /\ (outcome.val[3] = NoneInt) <=> ~end
            /\ (start /\ f.startTime.v >= 0) =>
                    outcome.val[2] = Some(f.startTime.v \div 1000)
            /\ (start /\ f.startTime.v < 0) =>
                    outcome.val[2] = Some(-((-f.startTime.v) \div 1000))
            /\ (end /\ f.endTime.v >= 0) =>
                    outcome.val[3] = Some(f.endTime.v \div 1000)
            /\ (end /\ f.endTime.v < 0) =>
                    outcome.val[3] = Some(-((-f.endTime.v) \div 1000))

C15_Witness ==
    /\ BalanceReturned
    /\ resp.body.farming.startTime = Some(-1500)
    /\ resp.body.farming.endTime = Some(500)
    /\ outcome.val[2] = Some(-1) /\ outcome.val[3] = Some(0)

SchemaOps ==
    {"balance", "claim", "friend_balance", "get_referral_code",
     "friend_claim", "claim_task", "start_game", "get_tasks"}

\* The operation that ended had every request answered, the last answer
\* being well-formed JSON.
AnsweredWithJson ==
    /\ op = "idle" /\ outcome.op \in SchemaOps /\ ~cancelled
    /\ resp.status # 0
    /\ outcome.op \in RetryOps => hr.nresp = hr.nreq
    /\ IF outcome.op = "get_tasks" THEN resp.body # NotJson
       ELSE resp.body.json

\* C16: balance, the farming claim, friend_balance, get_referral_code,
\* friend_claim, claim_task, start_game and get_tasks, answered with
\* well-formed JSON that lacks an expected field, return (None or empty for
\* that field) and do not raise.
C16_SchemaDrift ==
    AnsweredWithJson =>
        /\ outcome.kind = "return"
        /\ (outcome.op = "claim_task" /\ resp.body.status = Absent) =>
                outcome.val = PyFalse
        /\ (outcome.op = "start_game" /\ resp.body.gameId = Absent
                /\ resp.body.message = Absent) => outcome.val = PyNone
        /\ (outcome.op = "get_tasks" /\ resp.body.type = "object") =>
                outcome.val = JsonList(<<>>)
        /\ (outcome.op = "friend_claim" /\ resp.body.has = {}) =>
                outcome.val = PyNone

\* C17: get_tasks, answered with a JSON body, returns the body unchanged
\* when it is a list, and the empty list, without raising, when it is an
\* object, a string, a number or null.
C17_GetTasks ==
    (op = "idle" /\ outcome.op = "get_tasks" /\ ~cancelled
        /\ resp.status # 0 /\ resp.body.type # "notjson") =>
        /\ outcome.kind = "return"
        /\ resp.body.type = "list" => outcome.val = resp.body
        /\ resp.body.type \in {"object", "string", "number", "null"} =>
                outcome.val = [type |-> "list", items |-> <<>>]

C17_Witness ==
    /\ op = "idle" /\ outcome.op = "get_tasks" /\ outcome.kind = "return"
    /\ resp.body = [type |-> "object", items |-> <<"t1">>]
    /\ outcome.val.items = <<>>

\* C19: in play_game every claim request, the retry included, carries the
\* game id that the start request of the same pass returned: a claim is sent
\* only after the start of its pass returned a game identifier, and what it
\* carries is that identifier, never an id of an earlier pass or a value the
\* service did not return as a game identifier.
C19_ClaimCarriesStartedId ==
    (hp.n0 >= 1 /\ hp.sentGame # Absent) =>
        /\ hp.startKind = "id"
        /\ hp.sentGame \in GameIds
        /\ hp.sentGame = hp.startId

\* C20: play_game called with a count n <= 0 returns at once: it sends no
\* request and leaves the count alone; and for every n the remaining count
\* stays within 0..max(n, 0) (for n >= 0: 0..n) and the completed cycles
\* never exceed max(n, 0).
C20_NonPositiveCount ==
    (PlayRunning \/ PlayEnded) =>
        /\ hp.n0 <= 0 =>
            /\ PlayRunning => pc = "loop"
            /\ hp.nStart = 0 /\ hp.nClaim = 0
            /\ play_passes = hp.n0
        /\ hp.n0 >= 0 => play_passes \in 0..hp.n0
        /\ hp.completed <= (IF hp.n0 > 0 THEN hp.n0 ELSE 0)

====
